---- MODULE Spec2Model ----
(***************************************************************************)
(* A model of SignalForensics' decrypt_signal.py: the key chain of main()  *)
(* (validate_args, fetch_aux_key, fetch_decryption_key), the database      *)
(* stage (open_sqlcipher_db) and the attachment stage (export_attachments).*)
(*                                                                         *)
(* Conventions.                                                            *)
(*  - bytes and str values are sequences of integers (byte values, ASCII   *)
(*    codes).                                                              *)
(*  - An optional value (Python None, or "the call raised") is a sequence  *)
(*    of length 0 or 1: <<>> is None / raised, <<v>> is the value v.       *)
(*  - A dict (parsed JSON object, argparse.Namespace) is a record; a key   *)
(*    that is absent from the dict is absent from the record's DOMAIN.     *)
(***************************************************************************)
EXTENDS Integers, Sequences, FiniteSets, TLC

\* ------------------------------------------------------------------------
\* Bounds of the model.
\* ------------------------------------------------------------------------

\* Size of the attachment metadata the database returns: the number of
\* message rows plus the number of attachment records in them.
MaxItems == 3

\* ------------------------------------------------------------------------
\* Program constants.
\* ------------------------------------------------------------------------

\* AUX_KEY_PREFIX = "DPAPI"
AUX_KEY_PREFIX == <<68, 80, 65, 80, 73>>

\* DEC_KEY_PREFIX = "v10" (DEC_KEY_PREFIX.encode("utf-8"))
DEC_KEY_PREFIX == <<118, 49, 48>>

\* uuid.UUID("df9d8cd0-1501-11d1-8c7a-00c04fc297eb").bytes_le
DPAPI_BLOB_GUID == <<208, 140, 157, 223, 1, 21, 209, 17,
                     140, 122, 0, 192, 79, 194, 151, 235>>

\* Offsets of the GUID inside the envelope: encrypted_key[4:20].
GuidStart == 4
GuidEnd == 20

\* The length every key of the chain is required to have.
KeyLen == 32

\* key[:12], key[12:-16], key[-16:] in fetch_decryption_key.
NonceLen == 12
TagLen == 16

\* base64.b64decode(attachment["localKey"])[:32]
LocalKeyLen == 32

\* attachment_data[16 : 16 + size]
LeadLen == 16

\* ------------------------------------------------------------------------
\* Python values.
\* ------------------------------------------------------------------------

None == <<>>
Some(v) == <<v>>
IsNone(o) == Len(o) = 0
Val(o) == o[1]

Min(a, b) == IF a < b THEN a ELSE b
Max(a, b) == IF a > b THEN a ELSE b

\* n copies of the value v.
Rep(v, n) == [k \in 1..n |-> v]

\* A slice index of Python, normalised against a sequence of length n.
SliceIndex(k, n) == IF k < 0 THEN Max(k + n, 0) ELSE Min(k, n)

\* s[lo:hi] of Python, for any integers lo and hi: never raises.
PySlice(s, lo, hi) ==
    LET a == SliceIndex(lo, Len(s))
        b == SliceIndex(hi, Len(s))
    IN IF a < b THEN SubSeq(s, a + 1, b) ELSE <<>>

\* s[lo:] and s[:hi].
PyFrom(s, lo) == PySlice(s, lo, Len(s))
PyUpTo(s, hi) == PySlice(s, 0, hi)

\* hasattr / "key in dict".
Has(d, k) == k \in DOMAIN d

\* ------------------------------------------------------------------------
\* Library conversions: bytes.fromhex, base64.b64decode, int.
\* ------------------------------------------------------------------------

IsSpace(c) == c \in {32, 9, 10, 13, 11, 12}

HexVal(c) ==
    IF c \in 48..57 THEN c - 48
    ELSE IF c \in 97..102 THEN c - 87
    ELSE IF c \in 65..70 THEN c - 55
    ELSE -1

\* bytes.fromhex: whitespace is skipped between bytes, and each byte is two
\* adjacent hexadecimal digits. None is ValueError.
FromHex(s) ==
    LET at == SelectSeq([k \in 1..Len(s) |-> k], LAMBDA k : ~IsSpace(s[k]))
        n == Len(at)
    IN IF /\ n % 2 = 0
          /\ \A k \in 1..n : HexVal(s[at[k]]) >= 0
          /\ \A k \in 1..(n \div 2) : at[2 * k] = at[2 * k - 1] + 1
       THEN Some([k \in 1..(n \div 2) |->
                    16 * HexVal(s[at[2 * k - 1]]) + HexVal(s[at[2 * k]])])
       ELSE None

RECURSIVE Strip(_)
\* str.strip(): leading and trailing whitespace removed.
Strip(s) ==
    IF s = <<>> THEN s
    ELSE IF IsSpace(s[1]) THEN Strip(Tail(s))
    ELSE IF IsSpace(s[Len(s)]) THEN Strip(SubSeq(s, 1, Len(s) - 1))
    ELSE s

\* The value of a character in the base64 alphabet, -1 outside it.
B64Val(c) ==
    IF c \in 65..90 THEN c - 65
    ELSE IF c \in 97..122 THEN c - 71
    ELSE IF c \in 48..57 THEN c + 4
    ELSE IF c = 43 THEN 62
    ELSE IF c = 47 THEN 63
    ELSE -1

\* binascii.a2b_base64 in its non-strict mode, which base64.b64decode uses.
\* Characters outside the alphabet are discarded. A pad character '=' (61)
\* met when the open group holds 3 characters, or the second one in a row met
\* when it holds 2, ends the input; any other pad is skipped. A group left
\* open at the end of the input is binascii.Error, a ValueError (None).
B64Decode(s) ==
    LET IsData(k) == B64Val(s[k]) >= 0
        \* the data characters before position k, and the pads since the last
        DataBefore(k) == Cardinality({j \in 1..(k - 1) : IsData(j)})
        LastData(k) == LET d == {j \in 1..(k - 1) : IsData(j)} IN
                       IF d = {} THEN 0 ELSE CHOOSE j \in d : \A i \in d : i <= j
        PadsBefore(k) == Cardinality({j \in (LastData(k) + 1)..(k - 1) : s[j] = 61})
        Quad(k) == DataBefore(k) % 4
        Ends(k) == /\ s[k] = 61
                   /\ Quad(k) >= 2
                   /\ Quad(k) + PadsBefore(k) + 1 >= 4
        ends == {k \in 1..Len(s) : Ends(k)}
        stop == IF ends = {} THEN Len(s) + 1
                ELSE CHOOSE k \in ends : \A j \in ends : k <= j
        at == SelectSeq([k \in 1..Len(s) |-> k], LAMBDA k : k < stop /\ IsData(k))
        v(k) == B64Val(s[at[k]])
        n == Len(at)
        nbytes == 3 * (n \div 4) + (IF n % 4 = 0 THEN 0 ELSE (n % 4) - 1)
        Byte(k) == LET g == 4 * ((k - 1) \div 3) IN
                   CASE (k - 1) % 3 = 0 -> v(g + 1) * 4 + v(g + 2) \div 16
                     [] (k - 1) % 3 = 1 -> (v(g + 2) % 16) * 16 + v(g + 3) \div 4
                     [] OTHER -> (v(g + 3) % 4) * 64 + v(g + 4)
    IN IF ends = {} /\ n % 4 # 0 THEN None
       ELSE Some([k \in 1..nbytes |-> Byte(k)])

RECURSIVE DigitsValue(_, _)
DigitsValue(s, acc) ==
    IF s = <<>> THEN Some(acc)
    ELSE IF s[1] \in 48..57 THEN DigitsValue(Tail(s), 10 * acc + (s[1] - 48))
    ELSE None

\* int(text): surrounding whitespace, an optional sign, decimal digits. None
\* is ValueError.
ParseInt(text) ==
    LET s == Strip(text)
        signed == s # <<>> /\ s[1] \in {43, 45}
        digits == IF signed THEN Tail(s) ELSE s
        v == IF digits = <<>> THEN None ELSE DigitsValue(digits, 0)
    IN IF IsNone(v) THEN None
       ELSE IF signed /\ s[1] = 45 THEN Some(0 - Val(v)) ELSE v

\* ------------------------------------------------------------------------
\* Builders of the inputs the model draws from (not part of the program).
\* ------------------------------------------------------------------------

HexChar(v) == IF v < 10 THEN 48 + v ELSE 87 + v

\* The lower-case hexadecimal text of a byte string.
HexEncode(b) ==
    [k \in 1..(2 * Len(b)) |->
        IF k % 2 = 1 THEN HexChar(b[(k + 1) \div 2] \div 16)
        ELSE HexChar(b[k \div 2] % 16)]

B64Char(v) ==
    IF v < 26 THEN 65 + v
    ELSE IF v < 52 THEN 71 + v
    ELSE IF v < 62 THEN v - 4
    ELSE IF v = 62 THEN 43 ELSE 47

\* The padded base64 text of a byte string.
B64Encode(b) ==
    LET At(k) == IF k <= Len(b) THEN b[k] ELSE 0
        Char(k) == LET g == 3 * ((k - 1) \div 4) IN
                   CASE (k - 1) % 4 = 0 -> B64Char(At(g + 1) \div 4)
                     [] (k - 1) % 4 = 1 ->
                          B64Char((At(g + 1) % 4) * 16 + At(g + 2) \div 16)
                     [] (k - 1) % 4 = 2 ->
                          IF g + 2 > Len(b) THEN 61
                          ELSE B64Char((At(g + 2) % 16) * 4 + At(g + 3) \div 64)
                     [] OTHER ->
                          IF g + 3 > Len(b) THEN 61 ELSE B64Char(At(g + 3) % 64)
    IN [k \in 1..(4 * ((Len(b) + 2) \div 3)) |-> Char(k)]

\* A key of 32 bytes, and one of 16.
GoodKey == Rep(0, KeyLen)
ShortKey == Rep(0, KeyLen \div 2)

\* The envelope behind the prefix: a version word, the provider GUID, the rest.
Blob(guid) == <<1, 0, 0, 0>> \o guid \o <<7, 7>>
OtherGuid == [DPAPI_BLOB_GUID EXCEPT ![16] = 0]
OtherPrefix == <<88, 88, 88, 88, 88>>

\* Decoded values of os_crypt.encrypted_key: well formed; another prefix of the
\* same length before a well-formed envelope; another GUID; cut inside the
\* GUID; cut inside the prefix.
EnvelopeFields ==
    { AUX_KEY_PREFIX \o Blob(DPAPI_BLOB_GUID),
      OtherPrefix \o Blob(DPAPI_BLOB_GUID),
      AUX_KEY_PREFIX \o Blob(OtherGuid),
      AUX_KEY_PREFIX \o PyUpTo(Blob(DPAPI_BLOB_GUID), 10),
      PyUpTo(AUX_KEY_PREFIX, 3) }

\* Texts of os_crypt.encrypted_key: the base64 of the above, one with its last
\* character lost, and the empty text.
EncryptedKeyTexts ==
    { B64Encode(e) : e \in EnvelopeFields }
    \cup { PyUpTo(B64Encode(AUX_KEY_PREFIX \o Blob(DPAPI_BLOB_GUID)), -1), <<>> }

\* The Local State file: not JSON; JSON without os_crypt; os_crypt without
\* encrypted_key; os_crypt.encrypted_key a text.
LocalStateFiles ==
    { [json |-> FALSE, os_crypt |-> None],
      [json |-> TRUE, os_crypt |-> None],
      [json |-> TRUE, os_crypt |-> Some([encrypted_key |-> None])] }
    \cup { [json |-> TRUE, os_crypt |-> Some([encrypted_key |-> Some(t)])] :
             t \in EncryptedKeyTexts }

\* The packed decryption-key envelope: prefix, nonce, ciphertext, tag.
Packed(prefix) == prefix \o Rep(1, NonceLen) \o Rep(2, 4) \o Rep(3, TagLen)

\* Texts of encryptedKey: well formed; another prefix; not hexadecimal; empty.
EncryptedDecKeyTexts ==
    { HexEncode(Packed(DEC_KEY_PREFIX)),
      HexEncode(Packed(<<118, 49, 49>>)),
      <<122, 122>>,
      <<>> }

\* The config.json file: not JSON; JSON without encryptedKey; with it.
ConfigFiles ==
    { [json |-> FALSE, encryptedKey |-> None],
      [json |-> TRUE, encryptedKey |-> None] }
    \cup { [json |-> TRUE, encryptedKey |-> Some(t)] : t \in EncryptedDecKeyTexts }

\* What the OS unprotect (or its import) may do: the import fails, the call
\* raises, or it returns a secret of 32 or of 16 bytes.
UnprotectOutcomes ==
    { [kind |-> "import_error", ret |-> <<>>],
      [kind |-> "raise", ret |-> <<>>],
      [kind |-> "return", ret |-> GoodKey],
      [kind |-> "return", ret |-> ShortKey] }

\* What the authenticated decrypt may do: raise (the tag does not verify), or
\* return a plaintext: the hexadecimal text of 32 bytes, of 16 bytes, a text
\* that is not hexadecimal, bytes that are not UTF-8.
GcmOutcomes ==
    { [kind |-> "raise", ret |-> <<>>],
      [kind |-> "return", ret |-> HexEncode(GoodKey)],
      [kind |-> "return", ret |-> HexEncode(ShortKey)],
      [kind |-> "return", ret |-> <<122, 122>>],
      [kind |-> "return", ret |-> <<255>>] }

\* Contents of a key file (-kf): the hexadecimal text of 32 bytes and a line
\* break, of 16 bytes, a text that is not hexadecimal.
KeyFileTexts ==
    { Append(HexEncode(GoodKey), 10), HexEncode(ShortKey), <<122, 122>> }

Modes == {"auto", "aux", "key", "manual"}

\* The key options of a command line: none, -k <HEX> or -kf <file> (argparse
\* keeps the two apart).
KeyOptions ==
    { [key_file |-> None, key |-> None],
      [key_file |-> None, key |-> Some(GoodKey)],
      [key_file |-> None, key |-> Some(ShortKey)],
      [key_file |-> Some("key.txt"), key |-> None] }

\* The namespaces parse_args can return: the attributes are those of the
\* arguments the parser defines. The command lines drawn give a key option
\* only in the modes that read one.
ArgsSet ==
    { a \in { [mode |-> m, dir |-> "Signal", output |-> o,
               key_file |-> k.key_file, key |-> k.key,
               no_decryption |-> nd, skip_database |-> sd, skip_attachments |-> sa] :
                m \in Modes, o \in {None, Some("out")},
                k \in KeyOptions, nd \in BOOLEAN, sd \in BOOLEAN, sa \in BOOLEAN } :
        a.mode \in {"auto", "manual"} => (IsNone(a.key_file) /\ IsNone(a.key)) }

\* What validate_args finds on the machine.
Machines ==
    [win : BOOLEAN, dir : BOOLEAN, config : BOOLEAN, local_state : BOOLEAN,
     output : {"dir", "created", "failed"}, key_file : BOOLEAN]

\* ------------------------------------------------------------------------
\* Exceptions. An exception is its class and the line of the statement that
\* raises it (the line stands for the message).
\* ------------------------------------------------------------------------

Exc(type, line) == [type |-> type, line |-> line]

\* The result of a call: it raised e, or it returned v. calls lists the
\* unprotect and decrypt operations the call invoked, in order.
Raised(e, calls) == [err |-> Some(e), ret |-> None, calls |-> calls]
Returned(v, calls) == [err |-> None, ret |-> Some(v), calls |-> calls]

\* One invocation of an unprotect or decrypt operation: its name, the key and
\* the bytes handed to it, and the decoded field those bytes were cut from.
Call(op, key, arg, field) == [op |-> op, key |-> key, arg |-> arg, field |-> field]

\* ------------------------------------------------------------------------
\* validate_args
\* ------------------------------------------------------------------------

\* validate_args(args) on machine m: the exception it raises, or the
\* namespace as it leaves it (config and local_state added, no_decryption
\* forced when there is no output directory).
validate_args(args, m) ==
    LET a1 == [k \in DOMAIN args \cup {"config", "local_state"} |->
                 IF k = "config" THEN Some("config.json")
                 ELSE IF k = "local_state" THEN Some("Local State")
                 ELSE args[k]]
        a2 == IF IsNone(args.output) THEN [a1 EXCEPT !.no_decryption = TRUE] ELSE a1
    IN
    IF ~m.dir THEN Raised(Exc("FileNotFoundError", 166), <<>>)
    ELSE IF ~m.config THEN Raised(Exc("FileNotFoundError", 173), <<>>)
    ELSE IF ~m.local_state THEN Raised(Exc("FileNotFoundError", 177), <<>>)
    ELSE IF ~IsNone(args.output) /\ m.output = "failed"
        THEN Raised(Exc("FileNotFoundError", 188), <<>>)
    ELSE IF args.mode = "auto" /\ ~m.win THEN Raised(Exc("OSError", 193), <<>>)
    ELSE IF args.mode = "manual" /\ ~Has(a2, "windows_sid")
        THEN Raised(Exc("AttributeError", 197), <<>>)
    ELSE IF args.mode = "manual" /\ IsNone(a2.windows_sid)
        THEN Raised(Exc("ValueError", 198), <<>>)
    ELSE IF args.mode = "manual" /\ ~Has(a2, "windows_password")
        THEN Raised(Exc("AttributeError", 199), <<>>)
    ELSE IF args.mode = "manual" /\ IsNone(a2.windows_password)
        THEN Raised(Exc("ValueError", 200), <<>>)
    ELSE IF args.mode \in {"aux", "key"} /\ ~IsNone(args.key_file) /\ ~m.key_file
        THEN Raised(Exc("FileNotFoundError", 206), <<>>)
    ELSE IF args.mode \in {"aux", "key"} /\ IsNone(args.key_file)
            /\ (IsNone(args.key) \/ Val(args.key) = <<>>)
        THEN Raised(Exc("ValueError", 208), <<>>)
    ELSE IF args.mode = "key" /\ ~Has(a2, "skip_decryption")
        THEN Raised(Exc("AttributeError", 211), <<>>)
    ELSE IF args.mode = "key" /\ a2.skip_decryption
        THEN Raised(Exc("ValueError", 212), <<>>)
    ELSE Returned(a2, <<>>)

\* ------------------------------------------------------------------------
\* Key fetching
\* ------------------------------------------------------------------------

\* fetch_key_from_args(args), text being what the key file holds.
fetch_key_from_args(args, text) ==
    IF ~IsNone(args.key_file) THEN
        LET k == FromHex(Strip(text)) IN
        IF IsNone(k) THEN Raised(Exc("ValueError", 223), <<>>)
        ELSE Returned(k, <<>>)
    ELSE Returned(args.key, <<>>)

\* data.get("os_crypt", {}).get("encrypted_key")
LocalStateField(file) ==
    IF IsNone(file.os_crypt) THEN None ELSE Val(file.os_crypt).encrypted_key

\* The local encrypted_key of fetch_aux_key once line 247 has cut the prefix
\* off the decoded field; None when the function does not get that far.
envelope_of(args, file) ==
    IF args.mode = "aux" \/ ~file.json THEN None
    ELSE IF IsNone(LocalStateField(file)) \/ Val(LocalStateField(file)) = <<>> THEN None
    ELSE LET decoded == B64Decode(Val(LocalStateField(file))) IN
         IF IsNone(decoded) THEN None
         ELSE Some(PyFrom(Val(decoded), Len(AUX_KEY_PREFIX)))

\* fetch_aux_key(args) when the Local State file holds `file` and the OS
\* unprotect would do `outcome`. The value returned is an optional key (the
\* function can return None).
fetch_aux_key(args, text, file, outcome) ==
    IF args.mode = "aux" THEN fetch_key_from_args(args, text)
    ELSE IF ~file.json THEN Raised(Exc("MalformedInputFileError", 236), <<>>)
    ELSE IF IsNone(LocalStateField(file)) \/ Val(LocalStateField(file)) = <<>>
        THEN Raised(Exc("MalformedInputFileError", 241), <<>>)
    ELSE LET decoded == B64Decode(Val(LocalStateField(file))) IN
    IF IsNone(decoded) THEN Raised(Exc("MalformedKeyError", 249), <<>>)
    ELSE LET encrypted_key == PyFrom(Val(decoded), Len(AUX_KEY_PREFIX)) IN
    IF PySlice(encrypted_key, GuidStart, GuidEnd) # DPAPI_BLOB_GUID
        THEN Raised(Exc("MalformedKeyError", 255), <<>>)
    ELSE IF args.mode = "auto" THEN
        IF outcome.kind = "import_error" THEN Raised(Exc("ImportError", 261), <<>>)
        ELSE LET c == <<Call("unprotect_with_dpapi", <<>>, encrypted_key, Val(decoded))>> IN
             IF outcome.kind = "raise" THEN Raised(Exc("UnprotectError", 262), c)
             ELSE Returned(Some(outcome.ret), c)
    ELSE IF args.mode = "manual" THEN
        LET c == <<Call("unprotect_manually", <<>>, encrypted_key, Val(decoded))>> IN
        IF outcome.kind = "raise" THEN Raised(Exc("UnprotectError", 266), c)
        ELSE Returned(Some(outcome.ret), c)
    ELSE Returned(None, <<>>)

\* bytes.decode("utf-8") of a plaintext: bytes below 128 are their own
\* characters; the plaintexts the model draws hold no valid multi-byte
\* sequence, so any other byte is UnicodeDecodeError (None).
DecodeUtf8(b) == IF \A k \in 1..Len(b) : b[k] < 128 THEN Some(b) ELSE None

\* A fault for C6: the decrypt is invoked on the decoded bytes before the
\* prefix is looked at.
fetch_decryption_key_DecryptFirst(aux_key, file, outcome) ==
    IF ~file.json THEN Raised(Exc("MalformedInputFileError", 275), <<>>)
    ELSE IF IsNone(file.encryptedKey) \/ Val(file.encryptedKey) = <<>>
        THEN Raised(Exc("MalformedInputFileError", 280), <<>>)
    ELSE LET decoded == FromHex(Val(file.encryptedKey)) IN
    IF IsNone(decoded) THEN Raised(Exc("MalformedKeyError", 286), <<>>)
    ELSE LET key == PyFrom(Val(decoded), Len(DEC_KEY_PREFIX))
             c == <<Call("aes_256_gcm_decrypt", aux_key, key, Val(decoded))>>
         IN
    IF outcome.kind = "raise" THEN Raised(Exc("InvalidTag", 304), c)
    ELSE IF PyUpTo(Val(decoded), Len(DEC_KEY_PREFIX)) # DEC_KEY_PREFIX
        THEN Raised(Exc("MalformedKeyError", 290), c)
    ELSE LET text == DecodeUtf8(outcome.ret) IN
    IF IsNone(text) THEN Raised(Exc("UnicodeDecodeError", 306), c)
    ELSE LET k == FromHex(Val(text)) IN
    IF IsNone(k) THEN Raised(Exc("ValueError", 306), c)
    ELSE Returned(Val(k), c)

\* fetch_decryption_key(args, aux_key) when config.json holds `file` and the
\* authenticated decrypt would do `outcome`.
fetch_decryption_key(aux_key, file, outcome) ==
    IF ~file.json THEN Raised(Exc("MalformedInputFileError", 275), <<>>)
    ELSE IF IsNone(file.encryptedKey) \/ Val(file.encryptedKey) = <<>>
        THEN Raised(Exc("MalformedInputFileError", 280), <<>>)
    ELSE LET decoded == FromHex(Val(file.encryptedKey)) IN
    IF IsNone(decoded) THEN Raised(Exc("MalformedKeyError", 286), <<>>)
    ELSE IF PyUpTo(Val(decoded), Len(DEC_KEY_PREFIX)) # DEC_KEY_PREFIX
        THEN Raised(Exc("MalformedKeyError", 290), <<>>)
    ELSE LET key == PyFrom(Val(decoded), Len(DEC_KEY_PREFIX))
             nonce == PyUpTo(key, NonceLen)
             gcm_tag == PyFrom(key, 0 - TagLen)
             ct == PySlice(key, NonceLen, 0 - TagLen)
             c == <<Call("aes_256_gcm_decrypt", aux_key, nonce \o ct \o gcm_tag,
                         Val(decoded))>>
         IN
    IF outcome.kind = "raise" THEN Raised(Exc("InvalidTag", 304), c)
    ELSE LET text == DecodeUtf8(outcome.ret) IN
    IF IsNone(text) THEN Raised(Exc("UnicodeDecodeError", 306), c)
    ELSE LET k == FromHex(Val(text)) IN
    IF IsNone(k) THEN Raised(Exc("ValueError", 306), c)
    ELSE Returned(Val(k), c)

\* ------------------------------------------------------------------------
\* Attachments: the records of the message metadata and what the machine
\* holds for each.
\* ------------------------------------------------------------------------

RECURSIVE Sum(_)
Sum(b) == IF b = <<>> THEN 0 ELSE b[1] + Sum(Tail(b))

\* hash_sha256 (modules.crypto): a digest of the data. The model's digest is
\* the length and the byte sum, which tells apart the plaintexts it draws.
hash_sha256(data) == <<Len(data) % 256, Sum(data) % 256>>

\* mimetypes.guess_extension: ".png" for "image/png", None for a type it does
\* not know.
ImagePng == <<105, 109, 97, 103, 101, 47, 112, 110, 103>>
guess_extension(mime) ==
    IF mime = ImagePng THEN Some(<<46, 112, 110, 103>>) ELSE None

\* mime_to_extension(mime_type) formatted into the f-string of line 407: the
\* extension, or the text "None". Of a JSON null the call raises
\* AttributeError (None).
mime_to_extension(contentType) ==
    IF IsNone(contentType) THEN None
    ELSE LET e == guess_extension(Val(contentType)) IN
         IF IsNone(e) THEN Some(<<78, 111, 110, 101>>) ELSE Some(Val(e))

\* A payload of three bytes; the buffer the CBC decrypt yields for it (a
\* leading block, the payload, the padding); and a buffer whose payload has a
\* flipped bit.
Payload == <<10, 20, 30>>
Buffer(payload) == Rep(0, LeadLen) \o payload \o Rep(13, 13)
Tampered == <<10, 20, 31>>

\* A well-formed attachment record whose ciphertext is at `path`.
Record(path) ==
    [path |-> path,
     localKey |-> Rep(65, 88),                       \* base64 of 66 bytes
     iv |-> Rep(65, 22) \o <<61, 61>>,               \* base64 of 16 bytes
     size |-> <<51>>,                                \* "3"
     plaintextHash |-> HexEncode(hash_sha256(Payload)),
     contentType |-> Some(ImagePng)]

Without(r, k) == [f \in DOMAIN r \ {k} |-> r[f]]

\* What the machine holds for a record: whether its ciphertext file is there,
\* what the CBC decrypt of it yields (None: it raises), and whether its output
\* file can be opened for writing.
Holds(present, decrypted, writable) ==
    [present |-> present, decrypted |-> decrypted, writable |-> writable]

CaseNames ==
    {"good", "mismatch", "missing", "badkey", "decryptfail", "unwritable",
     "mismatch_nulltype", "nopath", "negsize"}

\* The attachment cases the model draws from, each with a path of its own.
\*   good               decodes, decrypts, verifies and is written
\*   mismatch           no contentType; its plaintext does not match the digest
\*   missing            its ciphertext file is not on disk
\*   badkey             localKey is not valid base64
\*   decryptfail        the CBC decrypt raises
\*   unwritable         its output file cannot be opened
\*   mismatch_nulltype  digest mismatch, and contentType is a JSON null
\*   nopath             the record has no "path"
\*   negsize            the declared size is "-17"
AttachmentCase(name) ==
    CASE name = "good" ->
           [rec |-> Record(<<97>>), env |-> Holds(TRUE, Some(Buffer(Payload)), TRUE)]
      [] name = "mismatch" ->
           [rec |-> Without(Record(<<98>>), "contentType"),
            env |-> Holds(TRUE, Some(Buffer(Tampered)), TRUE)]
      [] name = "missing" ->
           [rec |-> Record(<<99>>), env |-> Holds(FALSE, None, TRUE)]
      [] name = "badkey" ->
           [rec |-> [Record(<<100>>) EXCEPT !.localKey = Rep(65, 5)],
            env |-> Holds(TRUE, Some(Buffer(Payload)), TRUE)]
      [] name = "decryptfail" ->
           [rec |-> Record(<<101>>), env |-> Holds(TRUE, None, TRUE)]
      [] name = "unwritable" ->
           [rec |-> Record(<<102>>), env |-> Holds(TRUE, Some(Buffer(Payload)), FALSE)]
      [] name = "mismatch_nulltype" ->
           [rec |-> [Record(<<103>>) EXCEPT !.contentType = None],
            env |-> Holds(TRUE, Some(Buffer(Tampered)), TRUE)]
      [] name = "negsize" ->
           [rec |-> [Record(<<105>>) EXCEPT !.size = <<45, 49, 55>>],
            env |-> Holds(TRUE, Some(Buffer(Payload)), TRUE)]
      [] OTHER ->
           [rec |-> Without(Record(<<104>>), "path"),
            env |-> Holds(TRUE, Some(Buffer(Payload)), TRUE)]

\* The sequences over S of length at most n.
SeqsUpTo(S, n) == UNION { [1..k -> S] : k \in 0..n }

\* A message row: its JSON does not parse, has no "attachments", or lists the
\* attachments named.
Row(kind, atts) == [kind |-> kind, attachments |-> atts]
Weight(row) == 1 + Len(row.attachments)
Rows(n) ==
    IF n < 1 THEN {}
    ELSE {Row("bad", <<>>), Row("noattachments", <<>>)}
         \cup { Row("ok", a) : a \in SeqsUpTo(CaseNames, n - 1) }

RECURSIVE Batches(_)
\* The lists of message rows of total weight at most n.
Batches(n) ==
    {<<>>} \cup UNION { { <<r>> \o b : b \in Batches(n - Weight(r)) } : r \in Rows(n) }

\* A fault for C9: the output file is opened for appending ("ab").
WriteFile_Append(files, path, data) ==
    { f \in files : f.path # path }
    \cup { [path |-> path,
            data |-> IF \E f \in files : f.path = path
                     THEN (CHOOSE f \in files : f.path = path).data \o data
                     ELSE data] }

\* attachment_path.open("wb"); f.write(data): the file at path holds data.
WriteFile(files, path, data) ==
    { f \in files : f.path # path } \cup { [path |-> path, data |-> data] }

\* What one pass of the loop body (lines 377-418) does with a record: crash
\* is an exception that leaves the loop; the others are the increments of
\* counts, error and integrity_error and the output directory afterwards.
Outcome(crash, counts, error, integrity, files) ==
    [crash |-> crash, counts |-> counts, error |-> error,
     integrity_error |-> integrity, files |-> files]

\* A fault for C3: the missing ciphertext is logged but not counted.
on_missing_uncounted(files) == Outcome(None, 0, 0, 0, files)

\* Lines 388-391: the ciphertext file is not there: error += 1; continue.
on_missing(files) == Outcome(None, 0, 1, 0, files)

export_one(att, env, files) ==
    IF ~Has(att, "path") THEN Outcome(Some(Exc("KeyError", 377)), 0, 0, 0, files)
    ELSE LET Errored(integrity) == Outcome(None, 0, 1, integrity, files) IN
    IF ~Has(att, "localKey") \/ IsNone(B64Decode(att.localKey)) THEN Errored(0)
    ELSE IF ~Has(att, "iv") \/ IsNone(B64Decode(att.iv)) THEN Errored(0)
    ELSE IF ~Has(att, "size") \/ IsNone(ParseInt(att.size)) THEN Errored(0)
    ELSE LET key == PyUpTo(Val(B64Decode(att.localKey)), LocalKeyLen)
             nonce == Val(B64Decode(att.iv))
             size == Val(ParseInt(att.size))
         IN
    IF ~env.present THEN on_missing(files)
    ELSE IF IsNone(env.decrypted) THEN Errored(0)
    ELSE LET attachment_data == PySlice(Val(env.decrypted), LeadLen, LeadLen + size) IN
    IF ~Has(att, "plaintextHash") \/ IsNone(FromHex(att.plaintextHash)) THEN Errored(0)
    ELSE LET integrity == IF Val(FromHex(att.plaintextHash)) # hash_sha256(attachment_data)
                          THEN 1 ELSE 0
             ext == IF Has(att, "contentType")
                    THEN mime_to_extension(att.contentType) ELSE Some(<<>>)
         IN
    IF IsNone(ext) THEN Errored(integrity)
    ELSE IF ~env.writable THEN Errored(integrity)
    ELSE Outcome(None, 1, 0, integrity,
                 WriteFile(files, att.path \o Val(ext), attachment_data))

\* ------------------------------------------------------------------------
\* State
\* ------------------------------------------------------------------------

VARIABLES
    pc,               \* where main() is: the call it makes next, "done", "raised"
    args,             \* the argparse namespace
    err,              \* the exception that ended the run, if one did
    aux_key,          \* main's aux_key
    decryption_key,   \* main's decryption_key
    envelope,         \* fetch_aux_key's encrypted_key, once decoded and cut
    calls,            \* the unprotect / decrypt operations invoked so far
    stages,           \* the stages entered so far, in order
    dbOpen,           \* the SQLCipher connection is open
    outDb,            \* the output directory holds db.sqlite
    messages,         \* the rows the attachment query returned
    entry,            \* how many rows the outer loop has taken
    attachments,      \* the records of the current row not yet processed
    counts,           \* export_attachments' counts
    error,            \* export_attachments' error
    integrity_error,  \* export_attachments' integrity_error
    files,            \* the files under <output>/attachments
    report,           \* the three counts as logged at the end of the export
    ledger,           \* per record processed in this run: what the pass did
    second,           \* this is the second run over the same directories
    prev              \* the files and the report the first run left

vars == <<pc, args, err, aux_key, decryption_key, envelope, calls, stages, dbOpen, outDb,
          messages, entry, attachments, counts, error, integrity_error, files,
          report, ledger, second, prev>>

mainVars == <<aux_key, decryption_key, envelope, calls, stages>>
dbVars == <<dbOpen, outDb>>
loopVars == <<messages, entry, attachments, counts, error, integrity_error,
              files, report, ledger>>
runVars == <<second, prev>>

\* The state as main() is entered and parse_args() has returned.
Init ==
    /\ pc = "validate_args"
    /\ args \in ArgsSet
    /\ err = None
    /\ aux_key = None
    /\ decryption_key = None
    /\ envelope = None
    /\ calls = <<>>
    /\ stages = <<>>
    /\ dbOpen = FALSE
    /\ outDb = FALSE
    /\ messages = <<>>
    /\ entry = 0
    /\ attachments = <<>>
    /\ counts = 0
    /\ error = 0
    /\ integrity_error = 0
    /\ files = {}
    /\ report = None
    /\ ledger = <<>>
    /\ second = FALSE
    /\ prev = [files |-> {}, report |-> None]

\* An exception that nothing catches leaves main(): the run ends.
Propagate(e) ==
    /\ pc' = "raised"
    /\ err' = Some(e)

\* ------------------------------------------------------------------------
\* main()
\* ------------------------------------------------------------------------

\* Line 447: validate_args(args).
ValidateArgs ==
    /\ pc = "validate_args"
    /\ \E m \in Machines :
         \E r \in {validate_args(args, m)} :
         IF IsNone(r.err)
         THEN /\ args' = Val(r.ret)
              /\ pc' = "fetch_aux_key"
              /\ err' = err
         ELSE /\ Propagate(Val(r.err))
              /\ args' = args
    /\ UNCHANGED <<mainVars, dbVars, loopVars, runVars>>

\* Line 475: if args.no_decryption: return.
AfterKeys == IF args.no_decryption THEN "done" ELSE "open_sqlcipher_db"

\* Lines 457-468: the decryption key from the arguments (mode key), or the
\* auxiliary key and its length check (the other modes).
FetchAuxKey ==
    /\ pc = "fetch_aux_key"
    /\ \E text \in KeyFileTexts, file \in LocalStateFiles, o \in UnprotectOutcomes :
         IF args.mode = "key"
         THEN \E r \in {fetch_key_from_args(args, text)} :
              IF IsNone(r.err)
              THEN /\ decryption_key' = Val(r.ret)
                   /\ pc' = AfterKeys
                   /\ UNCHANGED <<err, aux_key, envelope, calls, stages>>
              ELSE /\ Propagate(Val(r.err))
                   /\ UNCHANGED <<aux_key, decryption_key, envelope, calls, stages>>
         ELSE \E r \in {fetch_aux_key(args, text, file, o)} :
              /\ stages' = Append(stages, "aux_key")
              /\ envelope' = envelope_of(args, file)
              /\ calls' = calls \o r.calls
              /\ UNCHANGED decryption_key
              /\ IF ~IsNone(r.err)
                 THEN /\ Propagate(Val(r.err))
                      /\ UNCHANGED aux_key
                 ELSE /\ aux_key' = Val(r.ret)
                      /\ IF IsNone(Val(r.ret)) \/ Val(Val(r.ret)) = <<>>
                            \/ Len(Val(Val(r.ret))) # KeyLen
                         THEN Propagate(Exc("MalformedKeyError", 466))
                         ELSE /\ pc' = "fetch_decryption_key"
                              /\ UNCHANGED err
    /\ UNCHANGED <<args, dbVars, loopVars, runVars>>

\* A fault for C5: an exception of the unwrap is caught and logged, and the
\* run goes on with an empty key.
FetchDecryptionKey_Swallow ==
    /\ pc = "fetch_decryption_key"
    /\ \E file \in ConfigFiles, o \in GcmOutcomes :
         \E r \in {fetch_decryption_key(Val(aux_key), file, o)} :
         /\ stages' = Append(stages, "decryption_key")
         /\ calls' = calls \o r.calls
         /\ pc' = AfterKeys
         /\ IF IsNone(r.err)
            THEN /\ decryption_key' = r.ret
                 /\ UNCHANGED err
            ELSE /\ err' = r.err
                 /\ decryption_key' = Some(<<>>)
    /\ UNCHANGED <<args, aux_key, envelope, dbVars, loopVars, runVars>>

\* Lines 470-476: the decryption key unwrapped with the auxiliary key.
FetchDecryptionKey ==
    /\ pc = "fetch_decryption_key"
    /\ \E file \in ConfigFiles, o \in GcmOutcomes :
         \E r \in {fetch_decryption_key(Val(aux_key), file, o)} :
         /\ stages' = Append(stages, "decryption_key")
         /\ calls' = calls \o r.calls
         /\ IF IsNone(r.err)
            THEN /\ decryption_key' = r.ret
                 /\ pc' = AfterKeys
                 /\ UNCHANGED err
            ELSE /\ Propagate(Val(r.err))
                 /\ UNCHANGED decryption_key
    /\ UNCHANGED <<args, aux_key, envelope, dbVars, loopVars, runVars>>

\* What open_sqlcipher_db finds: the encrypted database file, whether the key
\* unlocks it, and whether the output directory already holds db.sqlite.
DbMachines == [db_file : BOOLEAN, unlocks : BOOLEAN, copy : BOOLEAN]

\* open_sqlcipher_db(args, key) on machine m: the exception it raises, or
\* whether the output directory holds db.sqlite when it returns.
open_sqlcipher_db(a, key, m) ==
    LET c == <<Call("PRAGMA key", key, <<>>, <<>>)>> IN
    IF ~m.db_file THEN Raised(Exc("FileNotFoundError", 317), <<>>)
    ELSE IF ~m.unlocks THEN Raised(Exc("DatabaseError", 333), c)
    ELSE Returned(m.copy \/ ~a.skip_database, c)

\* Lines 478-483: the database stage.
OpenDb ==
    /\ pc = "open_sqlcipher_db"
    /\ \E m \in DbMachines :
         \E r \in {open_sqlcipher_db(args, Val(decryption_key), m)} :
         /\ stages' = Append(stages, "database")
         /\ calls' = calls \o r.calls
         /\ dbOpen' = m.db_file
         /\ IF IsNone(r.err)
            THEN /\ outDb' = Val(r.ret)
                 /\ pc' = IF args.skip_attachments THEN "close" ELSE "export_attachments"
                 /\ UNCHANGED err
            ELSE /\ Propagate(Val(r.err))
                 /\ UNCHANGED outDb
    /\ UNCHANGED <<args, aux_key, decryption_key, envelope, loopVars, runVars>>

\* Lines 488-492: the connection closed, main() returns.
Close ==
    /\ pc = "close"
    /\ dbOpen' = FALSE
    /\ pc' = "done"
    /\ UNCHANGED <<args, err, mainVars, outDb, loopVars, runVars>>

\* ------------------------------------------------------------------------
\* export_attachments
\* ------------------------------------------------------------------------

\* Lines 350-369: the output directory made, the rows fetched, the counters
\* set. A second run over the same source directory fetches the same rows.
ExportStart ==
    /\ pc = "export_attachments"
    /\ stages' = Append(stages, "attachments")
    /\ \E setup \in (IF second THEN {"ok"} ELSE {"ok", "mkdir_fails", "query_fails"}),
          rows \in (IF second THEN {messages} ELSE Batches(MaxItems)) :
         /\ IF setup = "mkdir_fails"
            THEN /\ Propagate(Exc("OSError", 352))
                 /\ UNCHANGED messages
            ELSE IF setup = "query_fails"
            THEN /\ Propagate(Exc("DatabaseError", 360))
                 /\ UNCHANGED messages
            ELSE /\ messages' = rows
                 /\ pc' = IF Len(rows) = 0 THEN "close" ELSE "export_loop"
                 /\ UNCHANGED err
    /\ entry' = 0
    /\ attachments' = <<>>
    /\ counts' = 0
    /\ error' = 0
    /\ integrity_error' = 0
    /\ report' = None
    /\ ledger' = <<>>
    /\ UNCHANGED <<args, aux_key, decryption_key, envelope, calls, dbVars, files,
                   runVars>>

\* Lines 371-373: the outer loop takes the next row and parses it.
ExportEntry ==
    /\ pc = "export_loop"
    /\ attachments = <<>>
    /\ entry < Len(messages)
    /\ entry' = entry + 1
    /\ LET row == messages[entry + 1] IN
       IF row.kind = "bad"
       THEN /\ Propagate(Exc("JSONDecodeError", 373))
            /\ UNCHANGED attachments
       ELSE IF row.kind = "noattachments"
       THEN /\ Propagate(Exc("KeyError", 373))
            /\ UNCHANGED attachments
       ELSE /\ attachments' = row.attachments
            /\ UNCHANGED <<pc, err>>
    /\ UNCHANGED <<args, mainVars, dbVars, messages, counts, error,
                   integrity_error, files, report, ledger, runVars>>

\* Lines 376-418: the inner loop takes the next record of the row.
ExportAttachment ==
    /\ pc = "export_loop"
    /\ attachments # <<>>
    /\ \E name \in {Head(attachments)} :
       \E o \in {export_one(AttachmentCase(name).rec, AttachmentCase(name).env, files)} :
          /\ attachments' = Tail(attachments)
          /\ counts' = counts + o.counts
          /\ error' = error + o.error
          /\ integrity_error' = integrity_error + o.integrity_error
          /\ files' = o.files
          /\ ledger' = Append(ledger, [name |-> name, counts |-> o.counts,
                                       error |-> o.error,
                                       integrity_error |-> o.integrity_error,
                                       crashed |-> ~IsNone(o.crash)])
          /\ IF IsNone(o.crash) THEN UNCHANGED <<pc, err>>
             ELSE Propagate(Val(o.crash))
    /\ UNCHANGED <<args, mainVars, dbVars, messages, entry, report, runVars>>

\* Lines 420-424: the loops are through; the counts are logged.
ExportFinish ==
    /\ pc = "export_loop"
    /\ attachments = <<>>
    /\ entry = Len(messages)
    /\ report' = Some([succeeded |-> counts, integrity_failed |-> integrity_error,
                       errored |-> error])
    /\ pc' = "close"
    /\ UNCHANGED <<args, err, mainVars, dbVars, messages, entry, attachments,
                   counts, error, integrity_error, files, ledger, runVars>>

\* The tool is run once more with the same command line over the same source
\* directory, the output directory as the first run left it. The key chain
\* and the database stage see what they saw before and yield the same key and
\* the same rows, so the second run is taken up where it calls
\* export_attachments (line 485). The first run got past the setup of
\* export_attachments (lines 352 and 360), and so does the second.
RunAgain ==
    /\ ~second
    /\ pc \in {"done", "raised"}
    /\ Len(stages) > 0 /\ stages[Len(stages)] = "attachments"
    /\ ~(pc = "raised" /\ Val(err).line \in {352, 360})
    /\ second' = TRUE
    /\ prev' = [files |-> files, report |-> report]
    /\ stages' = SubSeq(stages, 1, Len(stages) - 1)
    /\ pc' = "export_attachments"
    /\ err' = None
    /\ dbOpen' = TRUE
    /\ UNCHANGED <<args, aux_key, decryption_key, envelope, calls, outDb, loopVars>>

Next ==
    \/ ValidateArgs
    \/ FetchAuxKey
    \/ FetchDecryptionKey
    \/ OpenDb
    \/ ExportStart
    \/ ExportEntry
    \/ ExportAttachment
    \/ ExportFinish
    \/ Close
    \/ RunAgain

Spec == Init /\ [][Next]_vars

\* ------------------------------------------------------------------------
\* Properties
\* ------------------------------------------------------------------------

Range(q) == { q[k] : k \in 1..Len(q) }
LastStage == IF stages = <<>> THEN "none" ELSE stages[Len(stages)]

\* The positions <<row, record>> of the attachment records of the rows.
RecordsOf(rows) ==
    UNION { { <<k, j>> : j \in 1..Len(rows[k].attachments) } : k \in 1..Len(rows) }

\* How many attachment records of the rows satisfy P.
CountRecords(rows, P(_)) ==
    Cardinality({ p \in RecordsOf(rows) : P(rows[p[1]].attachments[p[2]]) })

\* The path of each case's record; <<>> for a record without one.
PathOf ==
    [n \in CaseNames |->
        IF Has(AttachmentCase(n).rec, "path") THEN <<AttachmentCase(n).rec.path>> ELSE <<>>]

\* The output directory holds a file written for the record of this case.
HasOutput(name) ==
    /\ PathOf[name] # <<>>
    /\ \E f \in files : PyUpTo(f.path, Len(PathOf[name][1])) = PathOf[name][1]

\* Every field of the record is there and decodes.
WellFormed(rec) ==
    /\ Has(rec, "path")
    /\ Has(rec, "localKey") /\ ~IsNone(B64Decode(rec.localKey))
    /\ Has(rec, "iv") /\ ~IsNone(B64Decode(rec.iv))
    /\ Has(rec, "size") /\ ~IsNone(ParseInt(rec.size))
    /\ Has(rec, "plaintextHash") /\ ~IsNone(FromHex(rec.plaintextHash))
    /\ Has(rec, "contentType") => ~IsNone(rec.contentType)

\* The cases whose ciphertext file is not on disk.
MissingCases ==
    { n \in CaseNames :
        WellFormed(AttachmentCase(n).rec) /\ ~AttachmentCase(n).env.present }

\* The cases whose record decodes, decrypts and can be written.
CleanCases ==
    { n \in CaseNames :
        LET c == AttachmentCase(n) IN
        WellFormed(c.rec) /\ c.env.present /\ ~IsNone(c.env.decrypted) /\ c.env.writable }

IsMissing(name) == name \in MissingCases
IsClean(name) == name \in CleanCases

\* The exceptions export_attachments raises for the pipeline's setup: the
\* output directory (line 352) and the metadata query (line 360).
SetupLines == {352, 360}

\* C1 (as claimed): no single attachment's failure aborts the batch. Once
\* export_attachments is running, the only exceptions that leave it are those
\* of its setup; and when it has logged its counts, every record of every row
\* has been processed and counted once, as exported or as errored.
C1_NoItemAbortsBatch ==
    /\ (pc = "raised" /\ LastStage = "attachments") => Val(err).line \in SetupLines
    /\ ~IsNone(report) =>
         /\ Len(ledger) = CountRecords(messages, LAMBDA n : TRUE)
         /\ \A k \in 1..Len(ledger) : ledger[k].counts + ledger[k].error = 1

\* C2 (as claimed): the database stage and the attachment stage are reached
\* only with a storage key of exactly 32 bytes and, when an auxiliary key is
\* used, an auxiliary key of exactly 32 bytes.
C2_KeyLengthInvariant ==
    (pc = "open_sqlcipher_db" \/ "database" \in Range(stages)) =>
        /\ ~IsNone(decryption_key) /\ Len(Val(decryption_key)) = KeyLen
        /\ args.mode # "key" => (~IsNone(aux_key) /\ Len(Val(aux_key)) = KeyLen)

\* The rows all parse, and each record either lacks its ciphertext file or
\* decodes, decrypts and writes without error.
C3_Batch ==
    /\ messages # <<>>
    /\ \A k \in 1..Len(messages) : messages[k].kind = "ok"
    /\ CountRecords(messages, LAMBDA n : ~(IsMissing(n) \/ IsClean(n))) = 0

\* C3: for a batch of N records of which k lack their ciphertext file and the
\* others decode, decrypt and write without error, export_attachments does not
\* raise, ends with succeeded = N - k and errored = k, and writes no output
\* file for a record whose ciphertext is missing.
C3_BatchCounts ==
    C3_Batch =>
        /\ pc # "raised"
        /\ pc \in {"close", "done"} => ~IsNone(report)
        /\ ~IsNone(report) =>
             /\ Val(report).succeeded = CountRecords(messages, IsClean)
             /\ Val(report).errored = CountRecords(messages, IsMissing)
             /\ Val(report).succeeded + Val(report).errored
                  = CountRecords(messages, LAMBDA n : TRUE)
        /\ \A k \in 1..Len(messages) : \A j \in 1..Len(messages[k].attachments) :
             IsMissing(messages[k].attachments[j]) => ~HasOutput(messages[k].attachments[j])

\* C3's case: a batch with a missing record and an exported one has been
\* through the loop.
C3_Witness ==
    /\ C3_Batch
    /\ ~IsNone(report)
    /\ Val(report).errored >= 1
    /\ Val(report).succeeded >= 1

\* C4 (as claimed): an integrity mismatch is soft. Every record counted as
\* integrity-failed is not also counted as errored, and has its output file.
C4_IntegritySoft ==
    \A k \in 1..Len(ledger) :
        ledger[k].integrity_error = 1 =>
            /\ ledger[k].error = 0
            /\ HasOutput(ledger[k].name)

StageOrder == <<"aux_key", "decryption_key", "database", "attachments">>
StageIndex(n) == CHOOSE k \in 1..Len(StageOrder) : StageOrder[k] = n

\* The exceptions of aux-key acquisition and decryption-key unwrap: those of
\* fetch_key_from_args, fetch_aux_key and fetch_decryption_key (lines 218 to
\* 306) and the length check of line 466.
KeyChainError(e) == e.line \in 218..306 \/ e.line = 466

\* C5: the stages run in the order aux-key acquisition, decryption-key
\* unwrap, database, attachments, none of them twice; and after an error of
\* the first two the run has ended: no later stage has run, the database was
\* never opened, and no attachment was written.
C5_FailFast ==
    /\ \A i, j \in 1..Len(stages) :
         i < j => StageIndex(stages[i]) < StageIndex(stages[j])
    /\ args.mode # "key" => stages = SubSeq(StageOrder, 1, Len(stages))
    /\ (~IsNone(err) /\ KeyChainError(Val(err))) =>
         /\ pc = "raised"
         /\ Len(stages) <= 2
         /\ ~dbOpen /\ ~outDb
         /\ files = {}
         /\ \A k \in 1..Len(calls) : calls[k].op # "PRAGMA key"

\* C5's case: the unwrap failed to authenticate, after the aux-key stage.
C5_Witness ==
    /\ pc = "raised"
    /\ Val(err).line = 304
    /\ stages = <<"aux_key", "decryption_key">>

\* The format errors of the two files: invalid JSON, missing field, invalid
\* base64, marker mismatch (Local State); invalid JSON, missing field, invalid
\* hexadecimal, wrong prefix (config.json).
LocalStateFormatLines == {236, 241, 249, 255}
ConfigFormatLines == {275, 280, 286, 290}
CryptoOps == {"unprotect_with_dpapi", "unprotect_manually", "aes_256_gcm_decrypt"}

\* C6 (as claimed): when the run aborts with a format error of either file,
\* no unprotect or decrypt operation has been invoked in that run.
C6_FormatErrorBeforeAnyDecrypt ==
    (pc = "raised" /\ Val(err).line \in LocalStateFormatLines \cup ConfigFormatLines) =>
        \A k \in 1..Len(calls) : calls[k].op \notin CryptoOps

\* C6 (amended): a format error of a file is raised before the decrypt of the
\* stage that reads the file. When the run aborts with a format error of the
\* Local State file, no unprotect or decrypt operation has been invoked; when
\* it aborts with a format error of config.json, the AES-GCM decrypt has not
\* been invoked.
C6_FormatErrorBeforeOwnDecrypt ==
    /\ (pc = "raised" /\ Val(err).line \in LocalStateFormatLines) =>
         \A k \in 1..Len(calls) : calls[k].op \notin CryptoOps
    /\ (pc = "raised" /\ Val(err).line \in ConfigFormatLines) =>
         \A k \in 1..Len(calls) : calls[k].op # "aes_256_gcm_decrypt"

\* C6's case: config.json lacks the prefix, in a run that has unprotected the
\* auxiliary key.
C6_Witness ==
    /\ pc = "raised"
    /\ Val(err).line = 290
    /\ \E k \in 1..Len(calls) : calls[k].op = "unprotect_with_dpapi"

\* The Local State files whose envelope is too short to hold the GUID.
TruncatedFiles ==
    { f \in LocalStateFiles :
        /\ ~IsNone(envelope_of(args, f))
        /\ Len(Val(envelope_of(args, f))) < GuidEnd }

\* C7 (as claimed): when the envelope is long enough to hold the GUID and the
\* GUID differs from the marker, the run ends with an error that differs from
\* the error of every truncated envelope.
C7_MarkerErrorDistinct ==
    ( /\ pc = "raised"
      /\ LastStage = "aux_key"
      /\ ~IsNone(envelope)
      /\ Len(Val(envelope)) >= GuidEnd
      /\ PySlice(Val(envelope), GuidStart, GuidEnd) # DPAPI_BLOB_GUID ) =>
        \A f \in TruncatedFiles :
            fetch_aux_key(args, <<>>, f, [kind |-> "raise", ret |-> <<>>]).err # err

\* C8 (as claimed): the bytes handed to an unprotect operation were cut from
\* a decoded field that begins with "DPAPI", and the bytes handed to the
\* AES-GCM decrypt from one that begins with "v10".
C8_PrefixValidated ==
    \A k \in 1..Len(calls) :
        /\ calls[k].op \in {"unprotect_with_dpapi", "unprotect_manually"} =>
             PyUpTo(calls[k].field, Len(AUX_KEY_PREFIX)) = AUX_KEY_PREFIX
        /\ calls[k].op = "aes_256_gcm_decrypt" =>
             PyUpTo(calls[k].field, Len(DEC_KEY_PREFIX)) = DEC_KEY_PREFIX

\* C9: in a second run over the same source directory and metadata, with the
\* output directory as the first run left it, no file of the first run is
\* lost or changed, and when the run has ended the output files and the
\* counts reported are those of the first run.
C9_Idempotent ==
    second =>
        /\ prev.files \subseteq files
        /\ pc \in {"close", "done", "raised"} =>
             (files = prev.files /\ report = prev.report)

\* C9's case: a second run has ended, over files of the first run, with
\* records exported and records errored.
C9_Witness ==
    /\ second
    /\ pc = "done"
    /\ prev.files # {}
    /\ ~IsNone(report)
    /\ Val(report).errored >= 1
    /\ Val(report).integrity_failed >= 1

\* The lines at which validate_args rejects an input: a path that is not
\* there (166, 173, 177, 188, 206), a platform without the OS unprotect
\* (193), missing credentials or key (198, 200, 208), a flag the mode does
\* not allow (212).
RejectionLines == {166, 173, 177, 188, 193, 198, 200, 206, 208, 212}

\* C10 (as claimed): every mode passes validation on valid inputs, so a run
\* that ends in validate_args was rejected for an input; and a key given in
\* mode key is the storage key, with no aux-key or unwrap stage.
C10_EveryModeCompletes ==
    /\ (pc = "raised" /\ stages = <<>>) => Val(err).line \in RejectionLines
    /\ (args.mode = "key" /\ ~IsNone(decryption_key)) =>
         (stages \in {<<>>, <<"database">>, <<"database", "attachments">>}
          /\ IsNone(aux_key))

\* The plaintext the trimming rule yields for a buffer B and a declared size
\* s: B without its first LeadLen bytes, truncated to s bytes.
Trimmed(B, s) ==
    SubSeq(B, LeadLen + 1, LeadLen + Min(Max(s, 0), Max(Len(B) - LeadLen, 0)))

\* C11 (as claimed): the plaintext written for a record is the decrypted
\* buffer with its first 16 bytes discarded and then truncated to the declared
\* size s, so its length is min(max(s, 0), max(len(B) - 16, 0)) and never
\* exceeds the declared size, for every declared size, negative ones included.
C11_PlaintextTrimmed ==
    \A k \in 1..Len(ledger) :
        ledger[k].counts = 1 =>
            LET c == AttachmentCase(ledger[k].name)
                B == Val(c.env.decrypted)
                s == Val(ParseInt(c.rec.size))
            IN \A f \in files :
                 PyUpTo(f.path, Len(c.rec.path)) = c.rec.path =>
                     /\ f.data = Trimmed(B, s)
                     /\ Len(f.data) = Min(Max(s, 0), Max(Len(B) - LeadLen, 0))
                     /\ Len(f.data) <= Max(s, 0)

====
